---- MODULE Spec2Model ----
(***************************************************************************)
(* A model of the DNS forwarder's request-handling core: the message cache *)
(* (src/src/cache/mod.rs), the token-bucket rate limiter                   *)
(* (src/src/middleware/rate_limit.rs), the upstream resolver               *)
(* (src/src/resolver/mod.rs) and the middleware pipeline                   *)
(* (src/src/middleware/mod.rs).  Each component has its own specification  *)
(* (SpecCache, SpecRate, SpecResolver, SpecPipeline) over the shared       *)
(* variables; the variables a component does not own stay at their idle    *)
(* value in its specification.                                             *)
(***************************************************************************)
EXTENDS Integers, Sequences, FiniteSets, TLC

(***************************************************************************)
(* Bounds of the model.                                                    *)
(***************************************************************************)
\* Clock ticks per second: the resolution of Instant in the model.
TicksPerSec == 2
\* The clock stops advancing at MaxTime ticks.
MaxTime == 2
\* Configured ttl_min / ttl_max range over 0..MaxTtlSecs seconds.
MaxTtlSecs == 1
\* Configured cache max_size ranges over 0..MaxSize.
MaxSize == 2

\* u32 is modelled with WordBits bits.
WordBits == 3
\* Configured burst_size ranges over 0..MaxCap.
MaxCap == 2
\* Configured upstream lists hold up to MaxUpstreams servers.
MaxUpstreams == 3
\* Pipelines hold up to MaxStages stages and serve up to MaxRequests requests.
MaxStages == 3
MaxRequests == 2

Queries == {"q1", "q2"}
Responses == {"r1", "r2"}

VARIABLES
    now,          \* Instant::now(), in ticks
    enabled,      \* DnsCache.enabled
    max_size,     \* DnsCache.max_size
    min_ttl,      \* DnsCache.min_ttl (a Duration, in ticks)
    max_ttl,      \* DnsCache.max_ttl (a Duration, in ticks)
    cache,        \* DnsCache.cache: the HashMap, a function on the resident keys
    lastPut,      \* history: per query, the latest put not yet undone by a put
    cacheOp,      \* history: the last cache call and what it returned
    rate_enabled,    \* RateLimitMiddleware.enabled
    max_tokens,      \* RateLimitMiddleware.max_tokens (burst_size)
    refill_rate,     \* RateLimitMiddleware.refill_rate (requests_per_second)
    overflow_checks, \* the build's overflow-checks setting (debug: on, release: off)
    buckets,         \* RateLimitMiddleware.buckets: the HashMap, a function on the seen addresses
    rateOp,          \* history: the last admission check and its outcome
    burst,           \* history: per address, the admission checks of a burst
    upstreams,        \* DnsResolver.upstreams
    current_upstream, \* DnsResolver.current_upstream, the cursor (0-based)
    resolving,        \* whether a resolve call is in progress
    attempt,          \* resolve's loop counter _attempt
    attempts,         \* history: the upstream attempts of the current or last call
    resolved,         \* history: what the last resolve call returned
    start_cursor,     \* history: the cursor when the current or last call started
    prev_ok,          \* history: the upstream index the call before succeeded at
    stalled,          \* whether the attempt in progress waits in a read that never returns
    middlewares,      \* MiddlewarePipeline.middlewares, in registration order
    metrics,          \* the counters of the pipeline's MetricsMiddleware
    requests,         \* the request tasks spawned so far
    udp_enabled,      \* ServerConfig.udp_enabled
    run_pc,           \* where DnsServer::run stands
    signalled,        \* whether the interrupt signal has been delivered
    acceptOp          \* history: the last thing the accept loop did

cacheVars == <<enabled, max_size, min_ttl, max_ttl, cache, lastPut, cacheOp>>

rateVars ==
    <<rate_enabled, max_tokens, refill_rate, overflow_checks, buckets, rateOp, burst>>

resolverVars ==
    <<upstreams, current_upstream, resolving, attempt, attempts, resolved,
      start_cursor, prev_ok, stalled>>

pipelineVars == <<middlewares, metrics, requests>>

serverVars == <<udp_enabled, run_pc, signalled, acceptOp>>

vars == <<now, cacheVars, rateVars, resolverVars, pipelineVars, serverVars>>

\* What the calls of each component leave alone.
notCache == <<rateVars, resolverVars, pipelineVars, serverVars>>
notRate == <<cacheVars, resolverVars, pipelineVars, serverVars>>
notResolver == <<now, cacheVars, rateVars, pipelineVars, serverVars>>

Min(a, b) == IF a <= b THEN a ELSE b
Max(a, b) == IF a >= b THEN a ELSE b

(***************************************************************************)
(* Time.                                                                   *)
(***************************************************************************)
\* Duration::from_secs
from_secs(s) == s * TicksPerSec

\* Instant::elapsed / duration_since on the monotonic clock
elapsed(since, t) == t - since

(***************************************************************************)
(* The message cache.                                                      *)
(***************************************************************************)
None == "None"

\* Option<T>: None is the empty sequence, Some(x) the sequence <<x>>.
NoneOpt == << >>
Some(x) == <<x>>

\* ttl_hint: Option<u32>, in seconds
Hints == {NoneOpt} \cup {Some(h) : h \in 0 .. MaxTtlSecs + 1}

\* The digest of the whole query; distinct queries of the model have
\* distinct digests.
generate_cache_key(query) == <<"md5", query>>

Keys == {generate_cache_key(q) : q \in Queries}

CacheEntry_new(response, ttl, t) ==
    [response |-> response, created_at |-> t, ttl |-> ttl]

\* Mutant: the comparison reversed.
is_expired_reversed(entry, t) == elapsed(entry.created_at, t) < entry.ttl

is_expired(entry, t) == elapsed(entry.created_at, t) > entry.ttl

len(c) == Cardinality(DOMAIN c)

remove(c, key) == [k \in DOMAIN c \ {key} |-> c[k]]

insert(c, key, entry) ==
    [k \in DOMAIN c \cup {key} |-> IF k = key THEN entry ELSE c[k]]

EmptyMap == [k \in {} |-> None]

cleanup_cache(c, t) ==
    LET expired_keys == {k \in DOMAIN c : is_expired(c[k], t)}
    IN  [k \in DOMAIN c \ expired_keys |-> c[k]]

\* Mutant: the hint is stored as given.
effective_ttl_unclamped(ttl_hint, lo, hi) ==
    IF ttl_hint # NoneOpt THEN from_secs(ttl_hint[1]) ELSE lo

\* Mutant: max and min applied with the bounds exchanged.
effective_ttl_swapped(ttl_hint, lo, hi) ==
    IF ttl_hint # NoneOpt
    THEN Max(Min(from_secs(ttl_hint[1]), lo), hi)
    ELSE lo

\* The TTL put stores: the hint clamped into [min_ttl, max_ttl], or min_ttl.
effective_ttl(ttl_hint, lo, hi) ==
    IF ttl_hint # NoneOpt
    THEN Min(Max(from_secs(ttl_hint[1]), lo), hi)
    ELSE lo

\* What get returns from map c at time t.
get(c, query, t) ==
    LET key == generate_cache_key(query)
    IN  IF key \in DOMAIN c /\ ~is_expired(c[key], t)
        THEN c[key].response
        ELSE None

\* The map after put's capacity check removed the expired entries, when the
\* map was at capacity.
swept(c, t) == IF len(c) >= max_size THEN cleanup_cache(c, t) ELSE c

\* Mutant: put evicts whenever it found the map at capacity, whatever the
\* sweep removed.
victims_unswept(c, t) ==
    IF len(c) >= max_size THEN DOMAIN swept(c, t) ELSE {}

\* The keys among which put removes one when the map is still at capacity
\* after the sweep: HashMap::keys().next() is any resident key.
victims(c, t) ==
    IF len(c) >= max_size /\ len(swept(c, t)) >= max_size
    THEN DOMAIN swept(c, t)
    ELSE {}

\* The maps put may be left with before it inserts.
evicted(c, t) ==
    IF victims(c, t) = {}
    THEN {swept(c, t)}
    ELSE {remove(swept(c, t), v) : v \in victims(c, t)}

NoPut == [response |-> None]

\* The history of a put is kept while the TTL it stored has not yet elapsed.
pending(h, t) ==
    [p \in Queries |->
        IF h[p] # NoPut /\ elapsed(h[p].at, t) < h[p].ttl THEN h[p] ELSE NoPut]

Op(op, q, arg, result) == [op |-> op, q |-> q, arg |-> arg, result |-> result]

IdleOp == Op("init", None, NoneOpt, None)

\* Mutant: get removes the expired entry it finds.
CacheGet_evicting(q) ==
    LET key == generate_cache_key(q)
    IN  /\ cacheOp' = Op("get", q, NoneOpt, IF enabled THEN get(cache, q, now) ELSE None)
        /\ cache' = IF enabled /\ key \in DOMAIN cache /\ is_expired(cache[key], now)
                    THEN remove(cache, key)
                    ELSE cache
        /\ UNCHANGED <<now, enabled, max_size, min_ttl, max_ttl, lastPut, notCache>>

\* DnsCache::get on the cache's own state
cache_get(q) ==
    /\ cacheOp' = Op("get", q, NoneOpt, IF enabled THEN get(cache, q, now) ELSE None)
    /\ UNCHANGED <<cache, lastPut>>

CacheGet(q) ==
    /\ cache_get(q)
    /\ UNCHANGED <<now, enabled, max_size, min_ttl, max_ttl, notCache>>

\* history: the path put took through its capacity check, from map c to map
\* c2: an entry that had not expired was removed, only expired entries were,
\* or none.
put_path(c, c2, t) ==
    IF \E k \in DOMAIN c \ DOMAIN c2 : ~is_expired(c[k], t) THEN "evicted"
    ELSE IF DOMAIN c2 # DOMAIN c THEN "swept"
    ELSE "stored"

\* DnsCache::put on the cache's own state
cache_put(q, r, hint) ==
    /\ IF ~enabled
       THEN /\ cacheOp' = Op("put", q, hint, None)
            /\ UNCHANGED <<cache, lastPut>>
       ELSE LET key == generate_cache_key(q)
                ttl == effective_ttl(hint, min_ttl, max_ttl)
            IN  \E c2 \in evicted(cache, now) :
                  LET c3 == insert(c2, key, CacheEntry_new(r, ttl, now))
                  IN  /\ cacheOp' = Op("put", q, hint, put_path(cache, c2, now))
                      /\ cache' = c3
                      /\ lastPut' = pending(
                           [p \in Queries |->
                              IF p = q
                              THEN [response |-> r, at |-> now, ttl |-> ttl,
                                    cleared |-> FALSE]
                              ELSE IF generate_cache_key(p) = key
                                      \/ generate_cache_key(p) \in DOMAIN cache \ DOMAIN c3
                                   THEN NoPut
                                   ELSE lastPut[p]], now)

CachePut(q, r, hint) ==
    /\ cache_put(q, r, hint)
    /\ UNCHANGED <<now, enabled, max_size, min_ttl, max_ttl, notCache>>

CacheCleanup ==
    /\ cacheOp' = Op("cleanup", None, NoneOpt, None)
    /\ cache' = IF enabled THEN cleanup_cache(cache, now) ELSE cache
    /\ UNCHANGED <<now, enabled, max_size, min_ttl, max_ttl, lastPut, notCache>>

CacheClear ==
    /\ cacheOp' = Op("clear", None, NoneOpt, None)
    /\ cache' = IF enabled THEN EmptyMap ELSE cache
    /\ lastPut' = IF enabled
                  THEN [p \in Queries |->
                          IF lastPut[p] = NoPut THEN NoPut
                          ELSE [lastPut[p] EXCEPT !.cleared = TRUE]]
                  ELSE lastPut
    /\ UNCHANGED <<now, enabled, max_size, min_ttl, max_ttl, notCache>>

\* The clock advances between calls.
CacheTick ==
    /\ now < MaxTime
    /\ now' = now + 1
    /\ cacheOp' = Op("tick", None, NoneOpt, None)
    /\ lastPut' = pending(lastPut, now')
    /\ UNCHANGED <<enabled, max_size, min_ttl, max_ttl, cache, notCache>>

\* DnsCache::new for every configuration
CacheInit ==
    /\ enabled \in BOOLEAN
    /\ max_size \in 0 .. MaxSize
    /\ min_ttl \in {from_secs(s) : s \in 0 .. MaxTtlSecs}
    /\ max_ttl \in {from_secs(s) : s \in 0 .. MaxTtlSecs}
    /\ cache = EmptyMap
    /\ lastPut = [p \in Queries |-> NoPut]
    /\ cacheOp = IdleOp

\* The cache as the other components' specifications leave it.
CacheIdle ==
    /\ enabled = FALSE
    /\ max_size = 0
    /\ min_ttl = 0
    /\ max_ttl = 0
    /\ cache = EmptyMap
    /\ lastPut = [p \in Queries |-> NoPut]
    /\ cacheOp = IdleOp

(***************************************************************************)
(* The rate limiter: one token bucket per client socket address.           *)
(***************************************************************************)
u32_MAX == 2 ^ WordBits - 1

\* SocketAddr: an IP address and a port.
SocketAddr(ip, port) == [ip |-> ip, port |-> port]

ClientAddrs == {SocketAddr("10.0.0.1", 5353), SocketAddr("10.0.0.1", 5354)}

\* f64 as u32: the whole part, saturated at u32::MAX.
as_u32(x) == Min(x, u32_MAX)

\* elapsed.as_secs_f64() * refill_rate as f64, as u32; the product is
\* taken exactly.
tokens_to_add(bucket, t) ==
    as_u32((elapsed(bucket.last_refill, t) * bucket.refill_rate) \div TicksPerSec)

RateLimitBucket_new(cap, rate, t) ==
    [tokens |-> cap, last_refill |-> t, max_tokens |-> cap, refill_rate |-> rate]

\* self.tokens + tokens_to_add does not fit u32.
refill_overflows(bucket, t) ==
    tokens_to_add(bucket, t) > 0
    /\ bucket.tokens + tokens_to_add(bucket, t) > u32_MAX

\* Mutant: last_refill is not advanced.
refill_stale(bucket, t) ==
    IF tokens_to_add(bucket, t) > 0
    THEN [bucket EXCEPT
            !.tokens = Min((bucket.tokens + tokens_to_add(bucket, t)) % (u32_MAX + 1),
                           bucket.max_tokens)]
    ELSE bucket

\* refill, the addition wrapping (overflow-checks off).
refill(bucket, t) ==
    IF tokens_to_add(bucket, t) > 0
    THEN [bucket EXCEPT
            !.tokens = Min((bucket.tokens + tokens_to_add(bucket, t)) % (u32_MAX + 1),
                           bucket.max_tokens),
            !.last_refill = t]
    ELSE bucket

\* try_consume: the bucket afterwards, and whether a token was taken.
try_consume_bucket(bucket, t) ==
    IF refill(bucket, t).tokens > 0
    THEN [refill(bucket, t) EXCEPT !.tokens = @ - 1]
    ELSE refill(bucket, t)

try_consume_result(bucket, t) == refill(bucket, t).tokens > 0

RateOp(addr, result, overflow) == [addr |-> addr, result |-> result, overflow |-> overflow]

IdleRateOp == RateOp(None, "init", FALSE)

NoBurst == [on |-> TRUE, t0 |-> 0, last |-> 0, outs |-> << >>]
OffBurst == [on |-> FALSE, t0 |-> 0, last |-> 0, outs |-> << >>]

\* Whether no whole token is due d ticks after a refill.
immediate(d) == d * refill_rate < TicksPerSec

\* The burst of one address, extended by an admission check at time t with
\* outcome out: max_tokens + 1 immediate checks from the bucket's creation,
\* a wait of exactly 1 / refill_rate seconds, two more immediate checks.  A
\* check off this schedule ends the record.
burst_next(b, t, out) ==
    LET k == Len(b.outs) + 1
        rec == [b EXCEPT !.outs = Append(@, out), !.last = t,
                         !.t0 = IF k = 1 THEN t ELSE @]
    IN  IF ~b.on THEN b
        ELSE IF k = 1 THEN rec
        ELSE IF k <= max_tokens + 1
             THEN IF immediate(t - b.t0) THEN rec ELSE OffBurst
        ELSE IF k = max_tokens + 2
             THEN IF refill_rate > 0 /\ (t - b.last) * refill_rate = TicksPerSec
                  THEN rec ELSE OffBurst
        ELSE IF k = max_tokens + 3
             THEN IF immediate(t - b.last) THEN rec ELSE OffBurst
        ELSE b

\* The admission check of one client address; a build with overflow checks
\* panics in refill where the addition overflows, leaving the bucket as it
\* was.
rate_limit_step(addr) ==
    IF ~rate_enabled
    THEN /\ rateOp' = RateOp(addr, "admit", FALSE)
         /\ UNCHANGED <<buckets, burst>>
    ELSE LET bucket == IF addr \in DOMAIN buckets
                       THEN buckets[addr]
                       ELSE RateLimitBucket_new(max_tokens, refill_rate, now)
             ovf == refill_overflows(bucket, now)
             out == IF ovf /\ overflow_checks THEN "panic"
                    ELSE IF try_consume_result(bucket, now) THEN "admit"
                    ELSE "reject"
         IN  /\ rateOp' = RateOp(addr, out, ovf)
             /\ buckets' = insert(buckets, addr,
                                  IF out = "panic" THEN bucket
                                  ELSE try_consume_bucket(bucket, now))
             /\ burst' = [burst EXCEPT ![addr] = burst_next(@, now, out)]

check_rate_limit(addr) ==
    /\ rate_limit_step(addr)
    /\ UNCHANGED <<now, rate_enabled, max_tokens, refill_rate, overflow_checks, notRate>>

\* The clock advances between admission checks.
RateTick ==
    /\ now < MaxTime
    /\ now' = now + 1
    /\ rateOp' = RateOp(None, "tick", FALSE)
    /\ UNCHANGED <<rate_enabled, max_tokens, refill_rate, overflow_checks, buckets,
                   burst, notRate>>

\* RateLimitMiddleware::new for every configuration, in either build.
RateInit ==
    /\ rate_enabled \in BOOLEAN
    /\ max_tokens \in 0 .. MaxCap
    /\ refill_rate \in 0 .. u32_MAX
    /\ overflow_checks \in BOOLEAN
    /\ buckets = EmptyMap
    /\ rateOp = IdleRateOp
    /\ burst = [a \in ClientAddrs |-> NoBurst]

\* The rate limiter as the other components' specifications leave it.
RateIdle ==
    /\ rate_enabled = FALSE
    /\ max_tokens = 0
    /\ refill_rate = 0
    /\ overflow_checks = FALSE
    /\ buckets = EmptyMap
    /\ rateOp = IdleRateOp
    /\ burst = [a \in ClientAddrs |-> NoBurst]

RateNext ==
    \/ \E a \in ClientAddrs : check_rate_limit(a)
    \/ RateTick

(***************************************************************************)
(* The resolver: upstream failover under a rotating cursor.                *)
(***************************************************************************)
Protocols == {"UDP", "TCP", "DoT", "DoH"}

UpstreamConfig(name, protocol) == [name |-> name, protocol |-> protocol]

UpstreamLists ==
    UNION {{[i \in 1 .. n |-> UpstreamConfig(i, f[i])] : f \in [1 .. n -> Protocols]}
           : n \in 0 .. MaxUpstreams}

\* The bytes upstream u answers with.
answer(u) == "answer" \o ToString(u.name)

Ok(response) == [ok |-> TRUE, val |-> response]
Err(e) == [ok |-> FALSE, val |-> <<e>>]

\* What query_upstream can return for an upstream: the datagram and stream
\* transports answer, fail or time out; DoT and DoH are not implemented.
query_upstream(u) ==
    IF u.protocol \in {"UDP", "TCP"}
    THEN {Ok(answer(u)), Err("NetworkError"), Err("Timeout")}
    ELSE {Err("UnsupportedProtocol")}

\* Mutant: DoT and DoH are queried like the datagram transport.
network_io_always(u) == TRUE

\* Whether query_upstream touches the network for an upstream: query_udp and
\* query_tcp open a socket, the DoT and DoH arms return at once.
network_io(u) == u.protocol \in {"UDP", "TCP"}

\* Mutant: the reads of query_tcp sit under the upstream's timeout.
read_unbounded_guarded(u) == FALSE

\* Whether a read of query_upstream can wait without bound: query_udp wraps
\* recv_from in timeout, query_tcp wraps connect only and awaits read_exact
\* bare.
read_unbounded(u) == u.protocol = "TCP"

\* Mutant: the cursor moves on without wrapping round.
cursor_after_unwrapped(cursor, n, ok) == IF ok THEN cursor ELSE cursor + 1

\* Mutant: the cursor stops at the last upstream instead of wrapping round.
cursor_after_saturating(cursor, n, ok) ==
    IF ok THEN cursor ELSE Min(cursor + 1, n - 1)

\* Mutant: the cursor advances after every attempt.
cursor_after_always(cursor, n, ok) == (cursor + 1) % n

\* Mutant: the cursor never advances.
cursor_after_never(cursor, n, ok) == cursor

\* The cursor after an attempt on upstream cursor of n: kept on success,
\* advanced cyclically on failure.
cursor_after(cursor, n, ok) == IF ok THEN cursor ELSE (cursor + 1) % n

NoResult == [ok |-> FALSE, val |-> << >>]

\* resolve is entered (the caller holds the resolver exclusively).
resolve_begin ==
    /\ ~resolving
    /\ resolving' = TRUE
    /\ attempt' = 0
    /\ attempts' = << >>
    /\ resolved' = NoResult
    /\ start_cursor' = current_upstream
    /\ prev_ok' = IF resolved.ok THEN Some(current_upstream) ELSE NoneOpt
    /\ UNCHANGED <<upstreams, current_upstream, stalled>>

ResolveBegin == resolve_begin /\ UNCHANGED notResolver

\* One pass of resolve's loop: the upstream under the cursor is queried.
ResolveAttempt ==
    /\ resolving /\ ~stalled
    /\ attempt < Len(upstreams)
    /\ \E r \in query_upstream(upstreams[current_upstream + 1]) :
          /\ attempts' = Append(attempts,
                                [idx |-> current_upstream, result |-> r,
                                 io |-> network_io(upstreams[current_upstream + 1])])
          /\ current_upstream' = cursor_after(current_upstream, Len(upstreams), r.ok)
          /\ IF r.ok
             THEN /\ resolved' = r
                  /\ resolving' = FALSE
                  /\ UNCHANGED attempt
             ELSE /\ attempt' = attempt + 1
                  /\ UNCHANGED <<resolved, resolving>>
    /\ UNCHANGED <<upstreams, start_cursor, prev_ok, stalled, notResolver>>

\* One pass of resolve's loop against an upstream that accepts the query and
\* never answers: a read without a timeout does not return.
ResolveStall ==
    /\ resolving /\ ~stalled
    /\ attempt < Len(upstreams)
    /\ read_unbounded(upstreams[current_upstream + 1])
    /\ stalled' = TRUE
    /\ UNCHANGED <<upstreams, current_upstream, resolving, attempt, attempts,
                   resolved, start_cursor, prev_ok, notResolver>>

\* The loop ran out: every upstream failed.
ResolveExhausted ==
    /\ resolving /\ ~stalled
    /\ attempt >= Len(upstreams)
    /\ resolved' = Err("AllUpstreamsUnavailable")
    /\ resolving' = FALSE
    /\ UNCHANGED <<upstreams, current_upstream, attempt, attempts, start_cursor,
                   prev_ok, stalled, notResolver>>

\* DnsResolver::new for every upstream list
ResolverInit ==
    /\ upstreams \in UpstreamLists
    /\ current_upstream = 0
    /\ resolving = FALSE
    /\ attempt = 0
    /\ attempts = << >>
    /\ resolved = NoResult
    /\ start_cursor = 0
    /\ prev_ok = NoneOpt
    /\ stalled = FALSE

\* The resolver as the other components' specifications leave it.
ResolverIdle ==
    /\ upstreams = << >>
    /\ current_upstream = 0
    /\ resolving = FALSE
    /\ attempt = 0
    /\ attempts = << >>
    /\ resolved = NoResult
    /\ start_cursor = 0
    /\ prev_ok = NoneOpt
    /\ stalled = FALSE

ResolverNext == ResolveBegin \/ ResolveAttempt \/ ResolveStall \/ ResolveExhausted

\* resolve runs on: a pass of the loop that can be made is made, unless the
\* attempt stalls.
ResolverFairness ==
    WF_vars(ResolveBegin) /\ WF_vars(ResolveAttempt) /\ WF_vars(ResolveExhausted)

(***************************************************************************)
(* The middleware pipeline: the request phase of concurrent request tasks. *)
(***************************************************************************)
\* The stages DnsServer::new registers, by their name(), and a stage of any
\* other implementation of the Middleware trait.
Logging == "LoggingMiddleware"
RateLimit == "RateLimitMiddleware"
Metrics == "MetricsMiddleware"
Other == "OtherMiddleware"

BuiltIn == {Logging, RateLimit, Metrics}

\* MiddlewareResult: Ok(None), Ok(Some(response)), Err(error); and a stage
\* that panicked.
Continue == [tag |-> "Continue", val |-> << >>]
ShortCircuit(response) == [tag |-> "ShortCircuit", val |-> <<response>>]
Rejected(error) == [tag |-> "Rejected", val |-> <<error>>]
Panicked == [tag |-> "Panicked", val |-> << >>]
Pending == [tag |-> "Pending", val |-> << >>]

MiddlewareResults ==
    {Continue} \cup {ShortCircuit(r) : r \in {"r1"}}
               \cup {Rejected(e) : e \in {"RateLimited", "Blocked", "InternalError"}}

\* MiddlewarePipeline::new followed by add_middleware
add_middleware(pipeline, stage) == Append(pipeline, stage)

\* The pipeline DnsServer::new registers under the three configuration
\* flags.
DnsServer_new_pipeline(logging_enabled, rate_limiting_enabled, metrics_enabled) ==
    LET p0 == << >>
        p1 == IF logging_enabled THEN add_middleware(p0, Logging) ELSE p0
        p2 == IF rate_limiting_enabled THEN add_middleware(p1, RateLimit) ELSE p1
    IN  IF metrics_enabled THEN add_middleware(p2, Metrics) ELSE p2

\* Pipelines of up to MaxStages stages, each stage registered at most once.
Pipelines ==
    {p \in UNION {[1 .. n -> BuiltIn \cup {Other}] : n \in 0 .. MaxStages} :
        \A i, j \in DOMAIN p : p[i] = p[j] => i = j}

MetricsMiddleware_new ==
    [total_requests |-> 0, total_responses |-> 0,
     blocked_requests |-> 0, rate_limited_requests |-> 0]

\* handle_request of each stage: its effect on the stage's state, and its
\* result res.
LoggingMiddleware_handle_request(res) ==
    /\ res = Continue
    /\ UNCHANGED <<metrics, rateVars>>

RateLimitMiddleware_handle_request(addr, res) ==
    /\ rate_limit_step(addr)
    /\ res = IF rateOp'.result = "admit" THEN Continue
             ELSE IF rateOp'.result = "reject" THEN Rejected("RateLimited")
             ELSE Panicked
    /\ UNCHANGED <<metrics, rate_enabled, max_tokens, refill_rate, overflow_checks>>

\* Mutant: the request is passed on uncounted.
MetricsMiddleware_handle_request_uncounted(res) ==
    /\ res = Continue
    /\ UNCHANGED <<metrics, rateVars>>

MetricsMiddleware_handle_request(res) ==
    /\ res = Continue
    /\ metrics' = [metrics EXCEPT !.total_requests = @ + 1]
    /\ UNCHANGED rateVars

OtherMiddleware_handle_request(res) ==
    /\ res \in MiddlewareResults
    /\ UNCHANGED <<metrics, rateVars>>

\* Mutant: the loop goes on to the next stage whatever a stage returned.
pipeline_continues_always(res) == TRUE

\* MiddlewarePipeline::handle_request goes on to the next stage exactly
\* after Ok(None).
pipeline_continues(res) == res = Continue

\* The response buffer of a task: the bytes it was filled with and, in order,
\* the positions of the stages that rewrote it.
Buffer(bytes) == [bytes |-> bytes, edits |-> << >>]

NoBuffer == Buffer(None)

\* Ok(()) of handle_response
Done == [tag |-> "Ok", val |-> << >>]

\* A request task: the client and its query, the task's position, the stages
\* of the request phase it ran and the phase's outcome, its response buffer,
\* the stages of the response phase it ran and the phase's outcome, what it
\* sent to the client, what else it did, and when it looked the query up in
\* the cache and stored the response there.
NewTask(addr, query, pc) ==
    [addr |-> addr, query |-> query, pc |-> pc,
     ran |-> << >>, outcome |-> Pending,
     buf |-> NoBuffer, rran |-> << >>, routcome |-> Pending,
     sent |-> NoneOpt, did |-> {}, lookup_at |-> NoneOpt, put_at |-> NoneOpt]

NewRequest(addr) == NewTask(addr, "q1", "request")

\* A datagram arrives and its task is spawned.
RequestArrives(addr) ==
    /\ Len(requests) < MaxRequests
    /\ requests' = Append(requests, NewRequest(addr))
    /\ UNCHANGED <<middlewares, metrics, now, cacheVars, rateVars, resolverVars, serverVars>>

\* One pass of handle_request's loop for request i: the next stage runs.
PipelineStage(i) ==
    /\ requests[i].pc = "request"
    /\ Len(requests[i].ran) < Len(middlewares)
    /\ LET stage == middlewares[Len(requests[i].ran) + 1] IN
       \E res \in MiddlewareResults \cup {Panicked} :
          /\ CASE stage = Logging -> LoggingMiddleware_handle_request(res)
               [] stage = RateLimit ->
                      RateLimitMiddleware_handle_request(requests[i].addr, res)
               [] stage = Metrics -> MetricsMiddleware_handle_request(res)
               [] OTHER -> OtherMiddleware_handle_request(res)
          /\ requests' =
                [requests EXCEPT ![i] =
                    [@ EXCEPT !.ran = Append(@, [stage |-> stage, result |-> res]),
                              !.pc = IF res = Panicked THEN "panicked"
                                     ELSE IF pipeline_continues(res) THEN "request"
                                     ELSE "returned",
                              !.outcome = IF pipeline_continues(res) THEN Pending
                                          ELSE res]]
    /\ UNCHANGED <<middlewares, now, cacheVars, resolverVars, serverVars>>

\* The loop of handle_request ran through every stage: Ok(None).
PipelineReturn(i) ==
    /\ requests[i].pc = "request"
    /\ Len(requests[i].ran) >= Len(middlewares)
    /\ requests' = [requests EXCEPT ![i] = [@ EXCEPT !.pc = "returned",
                                                     !.outcome = Continue]]
    /\ UNCHANGED <<middlewares, metrics, now, cacheVars, rateVars, resolverVars, serverVars>>

\* Pipelines of up to MaxStages stages in which a stage of another
\* implementation may be registered more than once.
ResponsePipelines ==
    {p \in UNION {[1 .. n -> BuiltIn \cup {Other}] : n \in 0 .. MaxStages} :
        \A i, j \in DOMAIN p : (p[i] = p[j] /\ p[i] \in BuiltIn) => i = j}

\* Result<(), MiddlewareError>
ResponseResults ==
    {Done} \cup {Rejected(e) : e \in {"RateLimited", "Blocked", "InternalError"}}

\* handle_response of each stage, registered at position k: its effect on
\* the stage's state, the buffer buf2 it leaves of buf, and its result res.
LoggingMiddleware_handle_response(k, buf, buf2, res) ==
    /\ res = Done
    /\ buf2 = buf
    /\ UNCHANGED metrics

RateLimitMiddleware_handle_response(k, buf, buf2, res) ==
    /\ res = Done
    /\ buf2 = buf
    /\ UNCHANGED metrics

MetricsMiddleware_handle_response(k, buf, buf2, res) ==
    /\ res = Done
    /\ buf2 = buf
    /\ metrics' = [metrics EXCEPT !.total_responses = @ + 1]

OtherMiddleware_handle_response(k, buf, buf2, res) ==
    /\ res \in ResponseResults
    /\ buf2 \in {buf, [buf EXCEPT !.edits = Append(@, k)]}
    /\ UNCHANGED metrics

\* Mutant: the loop goes on to the next stage after an error.
response_continues_always(res) == TRUE

\* MiddlewarePipeline::handle_response goes on to the next stage unless the
\* stage returned an error.
response_continues(res) == res = Done

\* One pass of handle_response's loop for task i: the next stage runs on the
\* task's buffer.
ResponseStage(i) ==
    /\ requests[i].pc = "response"
    /\ Len(requests[i].rran) < Len(middlewares)
    /\ LET k == Len(requests[i].rran) + 1
           stage == middlewares[k]
           buf == requests[i].buf
       IN
       \E res \in ResponseResults, buf2 \in {buf, [buf EXCEPT !.edits = Append(@, k)]} :
          /\ CASE stage = Logging -> LoggingMiddleware_handle_response(k, buf, buf2, res)
               [] stage = RateLimit -> RateLimitMiddleware_handle_response(k, buf, buf2, res)
               [] stage = Metrics -> MetricsMiddleware_handle_response(k, buf, buf2, res)
               [] OTHER -> OtherMiddleware_handle_response(k, buf, buf2, res)
          /\ requests' =
                [requests EXCEPT ![i] =
                    [@ EXCEPT !.rran = Append(@, [stage |-> stage, result |-> res,
                                                  mutated |-> buf2 # buf]),
                              !.buf = buf2,
                              !.pc = IF response_continues(res) THEN "response"
                                     ELSE "responded",
                              !.routcome = IF response_continues(res) THEN Pending
                                           ELSE res]]
    /\ UNCHANGED <<middlewares, now, cacheVars, rateVars, resolverVars, serverVars>>

\* The loop of handle_response ran through every stage: Ok(()).
ResponseReturn(i) ==
    /\ requests[i].pc = "response"
    /\ Len(requests[i].rran) >= Len(middlewares)
    /\ requests' = [requests EXCEPT ![i] = [@ EXCEPT !.pc = "responded",
                                                     !.routcome = Done]]
    /\ UNCHANGED <<middlewares, metrics, now, cacheVars, rateVars, resolverVars, serverVars>>

\* A task enters the response phase with response r in its buffer; two
\* tasks go through the phase.
ResponseBegins(r) ==
    /\ Len(requests) < 2
    /\ requests' = Append(requests,
                          [NewTask(SocketAddr("10.0.0.1", 5353), "q1", "response")
                             EXCEPT !.buf = Buffer(r)])
    /\ UNCHANGED <<middlewares, metrics, now, cacheVars, rateVars, resolverVars, serverVars>>

\* The response phase under any pipeline.
ResponseInit ==
    /\ middlewares \in ResponsePipelines
    /\ metrics = MetricsMiddleware_new
    /\ requests = << >>

ResponseNext ==
    \/ \E r \in Responses : ResponseBegins(r)
    \/ \E i \in 1 .. Len(requests) : ResponseStage(i)
    \/ \E i \in 1 .. Len(requests) : ResponseReturn(i)

\* A server with any pipeline, its rate limiter admitting no request or one
\* request of each address.
PipelineInit ==
    /\ middlewares \in Pipelines
    /\ metrics = MetricsMiddleware_new
    /\ requests = << >>
    /\ rate_enabled = TRUE
    /\ max_tokens \in 0 .. 1
    /\ refill_rate = 1
    /\ overflow_checks = FALSE
    /\ buckets = EmptyMap
    /\ rateOp = IdleRateOp
    /\ burst = [a \in ClientAddrs |-> NoBurst]

\* The pipeline as the other components' specifications leave it.
PipelineIdle ==
    /\ middlewares = << >>
    /\ metrics = MetricsMiddleware_new
    /\ requests = << >>

PipelineNext ==
    \/ \E a \in ClientAddrs : RequestArrives(a)
    \/ \E i \in 1 .. Len(requests) : PipelineStage(i)
    \/ \E i \in 1 .. Len(requests) : PipelineReturn(i)

(***************************************************************************)
(* The server: the accept loop of DnsServer::run and the request tasks it  *)
(* spawns.                                                                 *)
(***************************************************************************)
\* Mutant: the loop handles a datagram itself before it receives the next.
loop_ready_inline(tasks) ==
    \A i \in 1 .. Len(tasks) : tasks[i].pc \in {"done", "panicked"}

\* Whether the accept loop stands at recv_from: it hands each datagram to a
\* spawned task and awaits none of them.
loop_ready(tasks) == TRUE

\* The loop receives a datagram and spawns its task.
ServerRecv(addr, q) ==
    /\ run_pc = "loop"
    /\ loop_ready(requests)
    /\ Len(requests) < MaxRequests
    /\ requests' = Append(requests, NewTask(addr, q, "request"))
    /\ acceptOp' = "spawn"
    /\ UNCHANGED <<middlewares, metrics, now, cacheVars, rateVars, resolverVars,
                   udp_enabled, run_pc, signalled>>

\* recv_from fails: the error is logged and the loop goes on.
RecvError ==
    /\ run_pc = "loop"
    /\ loop_ready(requests)
    /\ acceptOp' = "error"
    /\ UNCHANGED <<pipelineVars, now, cacheVars, rateVars, resolverVars,
                   udp_enabled, run_pc, signalled>>

\* The interrupt signal is delivered to the process.  No handler is
\* registered before run awaits ctrl_c.
Interrupt ==
    /\ ~signalled
    /\ signalled' = TRUE
    /\ UNCHANGED <<pipelineVars, now, cacheVars, rateVars, resolverVars,
                   udp_enabled, run_pc, acceptOp>>

\* run, awaiting ctrl_c, sees the signal and returns.
RunShutdown ==
    /\ run_pc = "wait_signal"
    /\ signalled
    /\ run_pc' = "returned"
    /\ UNCHANGED <<pipelineVars, now, cacheVars, rateVars, resolverVars,
                   udp_enabled, signalled, acceptOp>>

\* Mutant: the task goes on whatever the request phase returned.
request_proceeds_always(outcome) == TRUE

\* Whether the task goes on after the request phase: on Ok(None).
request_proceeds(outcome) == outcome = Continue

\* Mutant: the task resolves upstream whatever the cache returned.
lookup_serves_never(cached) == FALSE

\* Whether the task answers from the cache: on Some(cached).
lookup_serves(cached) == cached # None

\* Mutant: the task goes on whatever resolve returned.
resolved_proceeds_always(res) == TRUE

\* Whether the task goes on after resolve: on Ok(response).
resolved_proceeds(res) == res.ok

\* The request phase returned a short-circuit response or an error: the
\* task sends the response, or nothing, and ends.
TaskRequestEnds(i) ==
    /\ requests[i].pc = "returned"
    /\ ~request_proceeds(requests[i].outcome)
    /\ requests' =
          [requests EXCEPT ![i] =
              [@ EXCEPT !.pc = "done",
                        !.sent = IF requests[i].outcome.tag = "ShortCircuit"
                                 THEN Some(Buffer(requests[i].outcome.val[1]))
                                 ELSE NoneOpt]]
    /\ UNCHANGED <<middlewares, metrics, now, cacheVars, rateVars, resolverVars,
                   serverVars>>

\* The request phase returned Ok(None): the cache lookup.
TaskLookup(i) ==
    /\ requests[i].pc = "returned"
    /\ request_proceeds(requests[i].outcome)
    /\ IF enabled
       THEN LET cached == get(cache, requests[i].query, now) IN
            /\ cache_get(requests[i].query)
            /\ requests' =
                  [requests EXCEPT ![i] =
                      [@ EXCEPT !.lookup_at = Some(now),
                                !.did = @ \cup (IF cached # None
                                                THEN {"lookup", "hit"}
                                                ELSE {"lookup"}),
                                !.buf = IF lookup_serves(cached)
                                        THEN Buffer(cached) ELSE @,
                                !.pc = IF lookup_serves(cached)
                                       THEN "response" ELSE "lock"]]
       ELSE /\ requests' = [requests EXCEPT ![i] = [@ EXCEPT !.pc = "lock"]]
            /\ UNCHANGED <<cache, lastPut, cacheOp>>
    /\ UNCHANGED <<middlewares, metrics, now, enabled, max_size, min_ttl, max_ttl,
                   rateVars, resolverVars, serverVars>>

\* A mutex that never refuses.
lock_free_always(tasks) == TRUE

\* resolver.lock(): the mutex is free when no task is between its lock and
\* the end of the block that holds the guard.
lock_free(tasks) == \A j \in 1 .. Len(tasks) : tasks[j].pc # "resolving"

\* The task acquires the resolver's mutex and enters resolve.
TaskLock(i) ==
    /\ requests[i].pc = "lock"
    /\ lock_free(requests)
    /\ resolve_begin
    /\ requests' = [requests EXCEPT ![i] = [@ EXCEPT !.pc = "resolving",
                                                     !.did = @ \cup {"resolve"}]]
    /\ UNCHANGED <<middlewares, metrics, now, cacheVars, rateVars, serverVars>>

\* resolve returned and the mutex is released: the task keeps the response,
\* or drops the request.
TaskResolved(i) ==
    /\ requests[i].pc = "resolving"
    /\ ~resolving
    /\ requests' =
          [requests EXCEPT ![i] =
              [@ EXCEPT !.did = @ \cup (IF resolved.ok THEN {}
                                        ELSE {"resolve_failed"}),
                        !.buf = IF resolved_proceeds(resolved)
                                THEN Buffer(resolved.val) ELSE @,
                        !.pc = IF resolved_proceeds(resolved) THEN "put" ELSE "done"]]
    /\ UNCHANGED <<middlewares, metrics, now, cacheVars, rateVars, resolverVars,
                   serverVars>>

\* The task stores a copy of the response in the cache, without a TTL hint.
TaskPut(i) ==
    /\ requests[i].pc = "put"
    /\ IF enabled
       THEN /\ cache_put(requests[i].query, requests[i].buf.bytes, NoneOpt)
            /\ requests' = [requests EXCEPT ![i] =
                               [@ EXCEPT !.pc = "response",
                                         !.did = @ \cup {"put"},
                                         !.put_at = Some(now)]]
       ELSE /\ requests' = [requests EXCEPT ![i] = [@ EXCEPT !.pc = "response"]]
            /\ UNCHANGED <<cache, lastPut, cacheOp>>
    /\ UNCHANGED <<middlewares, metrics, now, enabled, max_size, min_ttl, max_ttl,
                   rateVars, resolverVars, serverVars>>

\* Mutant: a task whose response phase failed returns without sending.
response_sent_on_ok(routcome) == routcome = Done

\* The error of the response phase is logged and nothing else: the send
\* follows it in either case.
response_sent(routcome) == TRUE

\* The response phase is over, with or without an error: the task sends
\* its buffer.
TaskSend(i) ==
    /\ requests[i].pc = "responded"
    /\ requests' = [requests EXCEPT ![i] =
                       [@ EXCEPT !.pc = "done",
                                 !.sent = IF response_sent(requests[i].routcome)
                                          THEN Some(requests[i].buf) ELSE @]]
    /\ UNCHANGED <<middlewares, metrics, now, cacheVars, rateVars, resolverVars,
                   serverVars>>

\* The upstream lists and pipelines of the servers modelled: up to two
\* datagram or stream upstreams; no stage, the three built-in stages, or the
\* rate limiter followed by a stage of another implementation.
ServerUpstreams ==
    {l \in UpstreamLists :
        Len(l) <= 2 /\ \A k \in DOMAIN l : l[k].protocol \in {"UDP", "TCP"}}

ServerPipelines ==
    {DnsServer_new_pipeline(FALSE, FALSE, FALSE),
     DnsServer_new_pipeline(TRUE, TRUE, TRUE),
     add_middleware(DnsServer_new_pipeline(FALSE, TRUE, FALSE), Other)}

\* DnsServer::new, and run up to its loop or, without UDP, up to its wait
\* for the signal.
ServerInit ==
    /\ udp_enabled = TRUE
    /\ run_pc = IF udp_enabled THEN "loop" ELSE "wait_signal"
    /\ signalled = FALSE
    /\ acceptOp = "init"
    /\ middlewares \in ServerPipelines
    /\ metrics = MetricsMiddleware_new
    /\ requests = << >>
    /\ rate_enabled = TRUE
    /\ max_tokens \in 1 .. 2
    /\ refill_rate = 1
    /\ overflow_checks = FALSE
    /\ buckets = EmptyMap
    /\ rateOp = IdleRateOp
    /\ burst = [a \in ClientAddrs |-> NoBurst]
    /\ enabled \in BOOLEAN
    /\ max_size = MaxSize
    /\ min_ttl = from_secs(MaxTtlSecs)
    /\ max_ttl = from_secs(MaxTtlSecs)
    /\ cache = EmptyMap
    /\ lastPut = [p \in Queries |-> NoPut]
    /\ cacheOp = IdleOp
    /\ upstreams \in ServerUpstreams
    /\ current_upstream = 0
    /\ resolving = FALSE
    /\ attempt = 0
    /\ attempts = << >>
    /\ resolved = NoResult
    /\ start_cursor = 0
    /\ prev_ok = NoneOpt
    /\ stalled = FALSE

\* The TTL the answers of the upstreams carry in their records.
answer_ttl == from_secs(MaxTtlSecs)

\* A server with caching on, the built-in stages and one upstream, for every
\* configured TTL range.
EndToEndInit ==
    /\ udp_enabled = TRUE
    /\ run_pc = "loop"
    /\ signalled = FALSE
    /\ acceptOp = "init"
    /\ middlewares = DnsServer_new_pipeline(TRUE, TRUE, TRUE)
    /\ metrics = MetricsMiddleware_new
    /\ requests = << >>
    /\ rate_enabled = TRUE
    /\ max_tokens \in 1 .. 2
    /\ refill_rate = 1
    /\ overflow_checks = FALSE
    /\ buckets = EmptyMap
    /\ rateOp = IdleRateOp
    /\ burst = [a \in ClientAddrs |-> NoBurst]
    /\ enabled = TRUE
    /\ max_size = MaxSize
    /\ min_ttl \in {from_secs(x) : x \in 0 .. MaxTtlSecs}
    /\ max_ttl \in {from_secs(x) : x \in 0 .. MaxTtlSecs}
    /\ cache = EmptyMap
    /\ lastPut = [p \in Queries |-> NoPut]
    /\ cacheOp = IdleOp
    /\ upstreams \in {l \in ServerUpstreams : Len(l) = 1}
    /\ current_upstream = 0
    /\ resolving = FALSE
    /\ attempt = 0
    /\ attempts = << >>
    /\ resolved = NoResult
    /\ start_cursor = 0
    /\ prev_ok = NoneOpt
    /\ stalled = FALSE

\* The server as the other components' specifications leave it.
ServerIdle ==
    /\ udp_enabled = TRUE
    /\ run_pc = "loop"
    /\ signalled = FALSE
    /\ acceptOp = "init"

TaskNext ==
    \/ \E i \in 1 .. Len(requests) : PipelineStage(i)
    \/ \E i \in 1 .. Len(requests) : PipelineReturn(i)
    \/ \E i \in 1 .. Len(requests) : TaskRequestEnds(i)
    \/ \E i \in 1 .. Len(requests) : TaskLookup(i)
    \/ \E i \in 1 .. Len(requests) : TaskLock(i)
    \/ ResolveAttempt
    \/ ResolveStall
    \/ ResolveExhausted
    \/ \E i \in 1 .. Len(requests) : TaskResolved(i)
    \/ \E i \in 1 .. Len(requests) : TaskPut(i)
    \/ \E i \in 1 .. Len(requests) : ResponseStage(i)
    \/ \E i \in 1 .. Len(requests) : ResponseReturn(i)
    \/ \E i \in 1 .. Len(requests) : TaskSend(i)

\* Two request tasks of one client, for any queries.
ServerNext ==
    \/ \E q \in Queries :
          Len(requests) < 2 /\ ServerRecv(SocketAddr("10.0.0.1", 5353), q)
    \/ TaskNext

\* Requests for one query, one after the other, as time passes.
EndToEndNext ==
    \/ /\ \A i \in 1 .. Len(requests) : requests[i].pc = "done"
       /\ ServerRecv(SocketAddr("10.0.0.1", 5353), "q1")
    \/ CacheTick
    \/ TaskNext

\* A server with or without UDP, caching on, the rate limiter as its one
\* stage and one upstream.
RunInit ==
    /\ udp_enabled \in BOOLEAN
    /\ run_pc = IF udp_enabled THEN "loop" ELSE "wait_signal"
    /\ signalled = FALSE
    /\ acceptOp = "init"
    /\ middlewares = DnsServer_new_pipeline(FALSE, TRUE, FALSE)
    /\ metrics = MetricsMiddleware_new
    /\ requests = << >>
    /\ rate_enabled = TRUE
    /\ max_tokens \in 1 .. 2
    /\ refill_rate = 1
    /\ overflow_checks = FALSE
    /\ buckets = EmptyMap
    /\ rateOp = IdleRateOp
    /\ burst = [a \in ClientAddrs |-> NoBurst]
    /\ enabled = TRUE
    /\ max_size = MaxSize
    /\ min_ttl = from_secs(MaxTtlSecs)
    /\ max_ttl = from_secs(MaxTtlSecs)
    /\ cache = EmptyMap
    /\ lastPut = [p \in Queries |-> NoPut]
    /\ cacheOp = IdleOp
    /\ upstreams \in {l \in ServerUpstreams : Len(l) = 1}
    /\ current_upstream = 0
    /\ resolving = FALSE
    /\ attempt = 0
    /\ attempts = << >>
    /\ resolved = NoResult
    /\ start_cursor = 0
    /\ prev_ok = NoneOpt
    /\ stalled = FALSE

\* run as a whole: the accept loop with its receive errors, the interrupt
\* signal, and the request tasks.
RunNext ==
    \/ \E q \in Queries : ServerRecv(SocketAddr("10.0.0.1", 5353), q)
    \/ RecvError
    \/ Interrupt
    \/ RunShutdown
    \/ TaskNext

\* The runtime schedules every task that can take a step, and run itself;
\* datagrams, receive errors, the signal and silent upstreams are the
\* environment's.
\* One step of the task spawned for the i-th datagram.
TaskStep(i) ==
    /\ i \in 1 .. Len(requests)
    /\ \/ PipelineStage(i) \/ PipelineReturn(i)
       \/ TaskRequestEnds(i) \/ TaskLookup(i)
       \/ TaskLock(i) \/ TaskResolved(i)
       \/ TaskPut(i) \/ ResponseStage(i)
       \/ ResponseReturn(i) \/ TaskSend(i)

RunFairness ==
    /\ WF_vars(RunShutdown)
    /\ WF_vars(ResolveAttempt)
    /\ WF_vars(ResolveExhausted)
    /\ \A i \in 1 .. MaxRequests : WF_vars(TaskStep(i))

(***************************************************************************)
(* The specifications.                                                     *)
(***************************************************************************)
RateSpecInit ==
    now = 0 /\ RateInit /\ CacheIdle /\ ResolverIdle /\ PipelineIdle /\ ServerIdle

SpecRate == RateSpecInit /\ [][RateNext]_vars

ResolverSpecInit ==
    now = 0 /\ ResolverInit /\ CacheIdle /\ RateIdle /\ PipelineIdle /\ ServerIdle

SpecResolver == ResolverSpecInit /\ [][ResolverNext]_vars

SpecResolverFair == ResolverSpecInit /\ [][ResolverNext]_vars /\ ResolverFairness

PipelineSpecInit == now = 0 /\ PipelineInit /\ CacheIdle /\ ResolverIdle /\ ServerIdle

SpecPipeline == PipelineSpecInit /\ [][PipelineNext]_vars

ResponseSpecInit ==
    now = 0 /\ ResponseInit /\ CacheIdle /\ RateIdle /\ ResolverIdle /\ ServerIdle

SpecResponse == ResponseSpecInit /\ [][ResponseNext]_vars

ServerSpecInit == now = 0 /\ ServerInit

SpecServer == ServerSpecInit /\ [][ServerNext]_vars

RunSpecInit == now = 0 /\ RunInit

SpecRun == RunSpecInit /\ [][RunNext]_vars /\ RunFairness

EndToEndSpecInit == now = 0 /\ EndToEndInit

SpecEndToEnd == EndToEndSpecInit /\ [][EndToEndNext]_vars

CacheNext ==
    \/ \E q \in Queries : CacheGet(q)
    \/ \E q \in Queries, r \in Responses, h \in {NoneOpt, Some(MaxTtlSecs + 1)} :
          CachePut(q, r, h)
    \/ CacheCleanup
    \/ CacheClear
    \/ CacheTick

CacheSpecInit ==
    now = 0 /\ CacheInit /\ RateIdle /\ ResolverIdle /\ PipelineIdle /\ ServerIdle

SpecCache == CacheSpecInit /\ [][CacheNext]_vars

\* put under every TTL configuration and every hint.
TtlPut == \E q \in Queries, r \in Responses, h \in Hints : CachePut(q, r, h)

TtlNext == TtlPut \/ CacheTick

SpecTtl == CacheSpecInit /\ [][TtlNext]_vars

(***************************************************************************)
(* Claims about the cache.                                                 *)
(***************************************************************************)
\* The entry the last cache call was about.
OpKey == generate_cache_key(cacheOp.q)

\* C1: with caching enabled, whenever a put has returned the number of
\* resident entries is at most max_size, for every configured max_size.
C1_CapacityBound == (enabled /\ cacheOp.op = "put") => len(cache) <= max_size

\* C2 as stated: every stored entry's TTL lies in [min_ttl, max_ttl], for
\* every hint and every configured pair min_ttl, max_ttl.
C2_TtlInRange ==
    \A k \in DOMAIN cache : min_ttl <= cache[k].ttl /\ cache[k].ttl <= max_ttl

\* C2 amended: every stored entry's TTL lies in [min_ttl, max_ttl], for
\* every hint and every configured pair with min_ttl <= max_ttl.
C2_TtlInRangeOrdered == (min_ttl <= max_ttl) => C2_TtlInRange

\* A put with a hint above max_ttl stored max_ttl.
C2_Witness ==
    /\ enabled /\ cacheOp.op = "put" /\ cacheOp.arg # NoneOpt
    /\ min_ttl < max_ttl
    /\ from_secs(cacheOp.arg[1]) > max_ttl
    /\ cache[OpKey].ttl = max_ttl

\* C3: after a put the stored TTL is the hint clamped into
\* [min_ttl, max_ttl] (below min_ttl gives min_ttl, above max_ttl gives
\* max_ttl, in between the hint is kept), and min_ttl without a hint; the
\* bounds of a clamp are ordered, min_ttl <= max_ttl.
C3_Clamp ==
    (enabled /\ cacheOp.op = "put" /\ min_ttl <= max_ttl) =>
        LET t == cache[OpKey].ttl
            h == cacheOp.arg
        IN  /\ h = NoneOpt => t = min_ttl
            /\ (h # NoneOpt /\ from_secs(h[1]) < min_ttl) => t = min_ttl
            /\ (h # NoneOpt /\ from_secs(h[1]) > max_ttl) => t = max_ttl
            /\ (h # NoneOpt /\ min_ttl <= from_secs(h[1]) /\ from_secs(h[1]) <= max_ttl)
                   => t = from_secs(h[1])

\* A put with a hint below min_ttl stored min_ttl.
C3_Witness ==
    /\ enabled /\ cacheOp.op = "put" /\ cacheOp.arg # NoneOpt
    /\ min_ttl <= max_ttl
    /\ from_secs(cacheOp.arg[1]) < min_ttl
    /\ cache[OpKey].ttl = min_ttl

\* C4 as stated: get(q) returns the bytes of the latest put(q, r, h) when no
\* put has evicted or overwritten q's entry since and less than the
\* effective TTL has elapsed.
C4_PutGet ==
    (cacheOp.op = "get" /\ lastPut[cacheOp.q] # NoPut) =>
        (elapsed(lastPut[cacheOp.q].at, now) < lastPut[cacheOp.q].ttl
            => cacheOp.result = lastPut[cacheOp.q].response)

\* C4 amended: as stated, provided also that clear has not been called
\* since the put.
C4_PutGetNoClear ==
    (cacheOp.op = "get" /\ lastPut[cacheOp.q] # NoPut) =>
        ((elapsed(lastPut[cacheOp.q].at, now) < lastPut[cacheOp.q].ttl
          /\ ~lastPut[cacheOp.q].cleared)
            => cacheOp.result = lastPut[cacheOp.q].response)

\* A get, some time after the put and within its TTL, returned the bytes
\* put.
C4_Witness ==
    /\ cacheOp.op = "get" /\ lastPut[cacheOp.q] # NoPut
    /\ ~lastPut[cacheOp.q].cleared
    /\ now > lastPut[cacheOp.q].at
    /\ elapsed(lastPut[cacheOp.q].at, now) < lastPut[cacheOp.q].ttl
    /\ cacheOp.result = lastPut[cacheOp.q].response

\* C5 as stated: a get of an entry whose elapsed time has reached its TTL
\* is a miss and leaves the map unchanged.
C5_ExpiredMiss ==
    [][cacheOp'.op = "get" =>
        LET key == generate_cache_key(cacheOp'.q)
        IN  /\ cache' = cache
            /\ (key \in DOMAIN cache
                  /\ elapsed(cache[key].created_at, now) >= cache[key].ttl)
                 => cacheOp'.result = None]_vars

\* C5 amended: a get of an entry whose elapsed time exceeds its TTL is a
\* miss and leaves the map unchanged.
C5_ExpiredMissStrict ==
    [][cacheOp'.op = "get" =>
        LET key == generate_cache_key(cacheOp'.q)
        IN  /\ cache' = cache
            /\ (key \in DOMAIN cache
                  /\ elapsed(cache[key].created_at, now) > cache[key].ttl)
                 => cacheOp'.result = None]_vars

\* A get missed on an entry that is past its TTL and still resident.
C5_Witness ==
    /\ cacheOp.op = "get" /\ enabled
    /\ OpKey \in DOMAIN cache
    /\ elapsed(cache[OpKey].created_at, now) > cache[OpKey].ttl
    /\ cacheOp.result = None

(***************************************************************************)
(* Claims about the rate limiter.                                          *)
(***************************************************************************)
\* C6: every bucket's token count stays within [0, capacity] and the
\* refill addition never overflows, for any capacity and refill rate.
C6_TokensInRangeNoOverflow ==
    /\ \A a \in DOMAIN buckets :
          0 <= buckets[a].tokens /\ buckets[a].tokens <= buckets[a].max_tokens
    /\ ~rateOp.overflow

\* The outcome the claim gives the i-th admission check of a burst.
burst_expected(i) ==
    IF i <= max_tokens THEN "admit"
    ELSE IF i = max_tokens + 1 THEN "reject"
    ELSE IF i = max_tokens + 2 THEN "admit"
    ELSE "reject"

BurstAsExpected ==
    \A a \in ClientAddrs :
        \A i \in 1 .. Len(burst[a].outs) : burst[a].outs[i] = burst_expected(i)

\* C7: with rate limiting enabled, capacity C and rate R, the first C
\* immediate requests of an address are admitted and the (C+1)-th is
\* rejected; after a wait of 1/R seconds one request is admitted and the
\* one after it is rejected.
C7_Burst == (rate_enabled /\ refill_rate >= 1) => BurstAsExpected

\* C7, for a capacity of at least one token: a bucket of capacity 0 never
\* holds the token the wait would add.
C7_BurstPositiveCapacity ==
    (rate_enabled /\ refill_rate >= 1 /\ max_tokens >= 1) => BurstAsExpected

\* A whole burst was recorded: C + 1 immediate checks, the wait, two more.
C7_Witness ==
    /\ rate_enabled /\ max_tokens >= 1 /\ refill_rate >= 1
    /\ \E a \in ClientAddrs :
          /\ Len(burst[a].outs) = max_tokens + 3
          /\ burst[a].outs[max_tokens + 1] = "reject"
          /\ burst[a].outs[max_tokens + 2] = "admit"
          /\ burst[a].outs[max_tokens + 3] = "reject"

(***************************************************************************)
(* Claims about the resolver.                                              *)
(***************************************************************************)
\* The attempts of the current or last call go through the upstreams in
\* cyclic order from the cursor the call started at.
CyclicFromStart ==
    \A k \in 1 .. Len(attempts) :
        attempts[k].idx = (start_cursor + k - 1) % Len(upstreams)

Returned == ~resolving /\ resolved # NoResult

\* C8: a resolve call that returns a response returns the response of the
\* first upstream that succeeds in cyclic order from the cursor (every
\* upstream before it in that order was attempted and failed), the cursor
\* rests on that upstream when the call returns, and the next call attempts
\* that same upstream first.
C8_Failover ==
    /\ (Returned /\ resolved.ok) =>
          /\ Len(attempts) >= 1
          /\ CyclicFromStart
          /\ \A k \in 1 .. Len(attempts) - 1 : ~attempts[k].result.ok
          /\ attempts[Len(attempts)].result = resolved
          /\ resolved.val = answer(upstreams[attempts[Len(attempts)].idx + 1])
          /\ current_upstream = attempts[Len(attempts)].idx
    /\ (prev_ok # NoneOpt /\ Len(attempts) >= 1) => attempts[1].idx = prev_ok[1]

\* C8 happens: a call started on the upstream that answered the call
\* before, which is not the first of the list, failed there, and returned
\* the answer of a later upstream in the cycle.
C8_Witness ==
    /\ Returned /\ resolved.ok
    /\ Len(attempts) >= 2
    /\ prev_ok # NoneOpt /\ prev_ok[1] > 0
    /\ attempts[1].idx = prev_ok[1]
    /\ current_upstream = attempts[Len(attempts)].idx

\* C9: within one resolve call no upstream is attempted more than once, and
\* a call that fails has attempted every upstream exactly once, all of them
\* failing, and fails with AllUpstreamsUnavailable, whatever the cursor the
\* call started at.
C9_EachOnceThenExhausted ==
    /\ \A j, k \in 1 .. Len(attempts) : attempts[j].idx = attempts[k].idx => j = k
    /\ (Returned /\ ~resolved.ok) =>
          /\ resolved = Err("AllUpstreamsUnavailable")
          /\ Len(attempts) = Len(upstreams)
          /\ {attempts[k].idx : k \in 1 .. Len(attempts)} = 0 .. Len(upstreams) - 1
          /\ \A k \in 1 .. Len(attempts) : ~attempts[k].result.ok

\* C9 happens: a call that started with the cursor off the first upstream
\* has failed on all of at least two upstreams.
C9_Witness ==
    /\ Returned /\ ~resolved.ok
    /\ Len(upstreams) >= 2
    /\ start_cursor > 0
    /\ Len(attempts) = Len(upstreams)

\* C18: an attempt on a stream-transport upstream that accepts the
\* connection and never replies ends with Timeout, and resolve goes on to the
\* next upstream.
C18_TcpAttemptBounded ==
    stalled ~> (/\ ~stalled
                /\ Len(attempts) >= 1
                /\ attempts[Len(attempts)].result = Err("Timeout"))

\* C20: an attempt on a DoT or DoH upstream fails with UnsupportedProtocol
\* without network I/O, and resolve treats it as a failed attempt: the
\* cursor moves to the next upstream, which is the next one attempted unless
\* the call has made its len(upstreams) attempts.
C20_Unsupported ==
    \A k \in 1 .. Len(attempts) :
        upstreams[attempts[k].idx + 1].protocol \in {"DoT", "DoH"} =>
            /\ attempts[k].result = Err("UnsupportedProtocol")
            /\ ~attempts[k].io
            /\ k < Len(attempts) =>
                  attempts[k + 1].idx = (attempts[k].idx + 1) % Len(upstreams)
            /\ k = Len(attempts) =>
                  /\ current_upstream = (attempts[k].idx + 1) % Len(upstreams)
                  /\ attempt = k
                  /\ (Returned => resolved = Err("AllUpstreamsUnavailable")
                                  /\ k = Len(upstreams))

\* C20 happens: a call failed on a DoT upstream and returned the answer of
\* the upstream after it.
C20_Witness ==
    /\ Returned /\ resolved.ok
    /\ Len(attempts) >= 2
    /\ upstreams[attempts[Len(attempts) - 1].idx + 1].protocol = "DoT"
    /\ attempts[Len(attempts) - 1].result = Err("UnsupportedProtocol")
    /\ attempts[Len(attempts)].idx = (attempts[Len(attempts) - 1].idx + 1) % Len(upstreams)

(***************************************************************************)
(* Claims about the middleware pipeline.                                   *)
(***************************************************************************)
stages(ran) == [k \in 1 .. Len(ran) |-> ran[k].stage]

RequestPhaseOrder ==
    \A i \in 1 .. Len(requests) :
        LET r == requests[i]
            n == Len(r.ran)
        IN  /\ n <= Len(middlewares)
            /\ stages(r.ran) = SubSeq(middlewares, 1, n)
            /\ \A k \in 1 .. n - 1 : r.ran[k].result = Continue
            /\ r.pc = "returned" =>
                  IF n > 0 /\ r.ran[n].result # Continue
                  THEN r.outcome = r.ran[n].result
                  ELSE n = Len(middlewares) /\ r.outcome = Continue
            /\ (middlewares = DnsServer_new_pipeline(TRUE, TRUE, TRUE)
                /\ r.outcome = Rejected("RateLimited")) =>
                  stages(r.ran) = <<Logging, RateLimit>>

RequestsCounted ==
    metrics'.total_requests # metrics.total_requests =>
        /\ metrics'.total_requests = metrics.total_requests + 1
        /\ \E i \in 1 .. Len(requests) :
              requests'[i].ran =
                  Append(requests[i].ran, [stage |-> Metrics, result |-> Continue])

\* C10: the request phase runs the stages in registration order and stops at
\* the first stage that does not return Continue: a ShortCircuit or a
\* Rejected is the phase's outcome and no later stage runs for that request,
\* and a request every stage continues ends in Continue.  With the stages
\* Logging, RateLimit, Metrics, a request the rate limiter rejects has run
\* Logging and RateLimit only, and the requests counter of Metrics moves
\* only when Metrics runs for a request, by one.
C10_RequestPhase == []RequestPhaseOrder /\ [][RequestsCounted]_vars

\* C10 happens: under Logging, RateLimit, Metrics one request has gone
\* through and been counted and a second has been rejected by the rate
\* limiter after Logging saw it.
C10_Witness ==
    /\ middlewares = <<Logging, RateLimit, Metrics>>
    /\ metrics.total_requests = 1
    /\ \E i, j \in 1 .. Len(requests) :
          /\ requests[i].pc = "returned" /\ requests[i].outcome = Continue
          /\ requests[j].pc = "returned"
          /\ requests[j].outcome = Rejected("RateLimited")
          /\ stages(requests[j].ran) = <<Logging, RateLimit>>

rstages(rran) == [k \in 1 .. Len(rran) |-> rran[k].stage]

\* The positions of the stages that rewrote the buffer, in the order they ran.
RECURSIVE edits_of(_)
edits_of(rran) ==
    IF rran = << >> THEN << >>
    ELSE LET front == edits_of(SubSeq(rran, 1, Len(rran) - 1))
         IN  IF rran[Len(rran)].mutated THEN Append(front, Len(rran)) ELSE front

\* C11: the response phase runs the stages in registration order on the one
\* buffer of the task; a stage that returns an error is the last to run and
\* its error is the phase's outcome, a phase no stage fails runs them all;
\* the buffer holds what every stage that ran made of it, the failing stage
\* and the ones before it included.
C11_ResponsePhase ==
    \A i \in 1 .. Len(requests) :
        LET r == requests[i]
            n == Len(r.rran)
        IN  /\ n <= Len(middlewares)
            /\ rstages(r.rran) = SubSeq(middlewares, 1, n)
            /\ \A k \in 1 .. n - 1 : r.rran[k].result = Done
            /\ r.pc = "responded" =>
                  IF n > 0 /\ r.rran[n].result # Done
                  THEN r.routcome = r.rran[n].result
                  ELSE n = Len(middlewares) /\ r.routcome = Done
            /\ r.buf.edits = edits_of(r.rran)

\* C11 happens: the first stage rewrote the buffer, a later stage failed, a
\* stage registered after that one did not run, and the buffer still holds
\* the first stage's rewrite.
C11_Witness ==
    \E i \in 1 .. Len(requests) :
        LET r == requests[i]
            n == Len(r.rran)
        IN  /\ r.pc = "responded"
            /\ n >= 2 /\ n < Len(middlewares)
            /\ r.rran[1].mutated /\ ~r.rran[n].mutated
            /\ r.routcome = Rejected("InternalError")
            /\ r.buf.edits = <<1>>

(***************************************************************************)
(* Claims about the request tasks of the server.                           *)
(***************************************************************************)
Stopped(r) == r.outcome.tag \in {"ShortCircuit", "Rejected"}

\* C12: a task whose request phase returned a short-circuit response or a
\* rejection looks nothing up in the cache, does not call the resolver and
\* runs no response phase; it ends having sent the short-circuit response,
\* as it was returned, or, rejected, having sent nothing.
C12_StoppedByRequestPhase ==
    \A i \in 1 .. Len(requests) :
        LET r == requests[i]
        IN  Stopped(r) =>
              /\ r.pc \in {"returned", "done"}
              /\ r.did = {} /\ r.lookup_at = NoneOpt /\ r.put_at = NoneOpt
              /\ r.rran = << >> /\ r.routcome = Pending
              /\ r.sent = IF r.pc = "done" /\ r.outcome.tag = "ShortCircuit"
                          THEN Some(Buffer(r.outcome.val[1]))
                          ELSE NoneOpt

\* C12 happens: one task has ended on a short-circuit response and sent it,
\* another has ended rejected by the rate limiter and sent nothing.
C12_Witness ==
    \E i, j \in 1 .. Len(requests) :
        /\ requests[i].pc = "done"
        /\ requests[i].outcome = ShortCircuit("r1")
        /\ requests[i].sent = Some(Buffer("r1"))
        /\ requests[j].pc = "done"
        /\ requests[j].outcome = Rejected("RateLimited")
        /\ requests[j].sent = NoneOpt

FailedTasks == {i \in 1 .. Len(requests) : "resolve_failed" \in requests[i].did}

ResolveFailedDropped ==
    \A i \in FailedTasks :
        LET r == requests[i]
        IN  /\ r.pc = "done"
            /\ r.sent = NoneOpt
            /\ "put" \notin r.did /\ r.put_at = NoneOpt
            /\ r.rran = << >> /\ r.routcome = Pending

ResolveFailedFrame ==
    \A i \in 1 .. Len(requests) :
        (requests'[i] # requests[i] /\ "resolve_failed" \in requests'[i].did) =>
            /\ resolved = Err("AllUpstreamsUnavailable")
            /\ cache' = cache
            /\ metrics' = metrics

\* C13: a task whose resolve call failed with AllUpstreamsUnavailable ends
\* there: it sends nothing, stores nothing in the cache and runs no response
\* phase.
C13_ResolveFailure == []ResolveFailedDropped /\ [][ResolveFailedFrame]_vars

\* C13 happens: with caching on and two upstreams, a task's resolve call
\* failed on both and the task ended without a reply, the cache empty.
C13_Witness ==
    /\ enabled
    /\ Len(upstreams) = 2
    /\ \E i \in FailedTasks :
          /\ requests[i].pc = "done"
          /\ requests[i].sent = NoneOpt
          /\ generate_cache_key(requests[i].query) \notin DOMAIN cache

HitTasks == {i \in 1 .. Len(requests) : "hit" \in requests[i].did}

CacheHitServed ==
    \A i \in HitTasks :
        LET r == requests[i]
        IN  /\ "resolve" \notin r.did /\ "put" \notin r.did
            /\ r.pc \in {"response", "responded", "done"}
            /\ r.buf.edits = edits_of(r.rran)
            /\ r.pc = "done" => r.sent = Some(r.buf)

CacheHitFrame ==
    \A i \in 1 .. Len(requests) :
        (requests'[i] # requests[i] /\ "hit" \in requests'[i].did) =>
            /\ cache' = cache
            /\ resolverVars' = resolverVars
            /\ "hit" \notin requests[i].did =>
                  requests'[i].buf =
                      Buffer(cache[generate_cache_key(requests[i].query)].response)

\* C14: a task that hit the cache fills its buffer with the cached bytes,
\* never enters the resolver, runs the response phase on its buffer and
\* sends it; none of its steps changes the cache or the resolver.
C14_CacheHit == []CacheHitServed /\ [][CacheHitFrame]_vars

\* C14 happens: a task that hit the cache has sent a buffer the response
\* phase rewrote, and the cache still holds the bytes the buffer was filled
\* with.
C14_Witness ==
    \E i \in HitTasks :
        LET r == requests[i]
            key == generate_cache_key(r.query)
        IN  /\ r.pc = "done"
            /\ r.sent # NoneOpt
            /\ r.sent[1].edits # << >>
            /\ key \in DOMAIN cache
            /\ cache[key].response = r.sent[1].bytes

\* C15: with caching on, after a request for a query was answered from an
\* upstream and the answer stored, a later request for the same query that
\* looks it up before the answer's TTL has elapsed hits the cache, contacts
\* no upstream and is answered with the same bytes.
C15_EndToEnd ==
    \A i, j \in 1 .. Len(requests) :
        LET first == requests[i]
            second == requests[j]
        IN  (/\ i < j
             /\ first.query = second.query
             /\ first.put_at # NoneOpt
             /\ second.lookup_at # NoneOpt
             /\ elapsed(first.put_at[1], second.lookup_at[1]) < answer_ttl) =>
                /\ "hit" \in second.did
                /\ "resolve" \notin second.did
                /\ second.pc = "done" => second.sent = Some(Buffer(first.buf.bytes))

(***************************************************************************)
(* Claims about run: the accept loop, the signal, the tasks' progress.     *)
(***************************************************************************)
\* C16: the accept loop of a server with UDP always stands ready to receive:
\* a receive error can be taken and leaves it so, and a datagram can be
\* received and given to a task of its own, whatever the tasks spawned
\* before are doing.
C16_LoopReceives ==
    udp_enabled =>
        /\ run_pc = "loop"
        /\ loop_ready(requests)
        /\ ENABLED RecvError
        /\ Len(requests) < MaxRequests =>
              \A q \in Queries : ENABLED ServerRecv(SocketAddr("10.0.0.1", 5353), q)

\* C16 happens: a receive error was the last thing the loop saw, a task is
\* held in resolve by a silent upstream, and the loop stands ready.
C16_Witness ==
    /\ udp_enabled /\ run_pc = "loop"
    /\ acceptOp = "error"
    /\ Len(requests) < MaxRequests
    /\ stalled
    /\ \E i \in 1 .. Len(requests) : requests[i].pc = "resolving"

\* C17: when the interrupt signal arrives while the UDP accept loop runs,
\* run returns.
C17_SignalReturns == (udp_enabled /\ signalled) ~> (run_pc = "returned")

\* C19: every spawned request task eventually ends, having replied or
\* dropped the request.
C19_TasksFinish ==
    \A i \in 1 .. MaxRequests :
        (Len(requests) >= i) ~> (Len(requests) >= i /\ requests[i].pc = "done")

\* The tasks inside the block that holds the resolver's mutex.
holders == {i \in 1 .. Len(requests) : requests[i].pc = "resolving"}

\* At most one task is inside resolve, and a call of resolve that is under
\* way has its task.
OneResolver ==
    /\ Cardinality(holders) <= 1
    /\ resolving => holders # {}

\* Every step that reads or moves the cursor for a call is made for the one
\* task inside resolve, which stays the same from the lock to the return.
ResolveNotInterleaved ==
    (current_upstream' # current_upstream \/ attempts' # attempts
        \/ attempt' # attempt \/ start_cursor' # start_cursor) =>
            /\ Cardinality(holders') = 1
            /\ holders # {} => holders' = holders

\* C21: under any interleaving of the request tasks at most one task is
\* inside resolve; the lock is held for the whole failover sequence, so the
\* cursor reads and updates of two requests never interleave.
C21_ResolveExclusive == []OneResolver /\ [][ResolveNotInterleaved]_vars

\* C21 happens: a task is in the middle of its failover sequence, one
\* upstream failed and the cursor moved, while another task waits for the
\* lock.
C21_Witness ==
    /\ resolving /\ attempt >= 1 /\ current_upstream # start_cursor
    /\ \E i, j \in 1 .. Len(requests) :
          requests[i].pc = "resolving" /\ requests[j].pc = "lock"

(***************************************************************************)
(* Claims about the cache's capacity check.                                *)
(***************************************************************************)
\* C22: a put that finds the map at capacity first removes every expired
\* entry and evicts a further entry only if the map is still at capacity:
\* it removes an entry that has not expired only when no expired entry was
\* resident, and at most one; below capacity it removes nothing.
C22_SweepThenEvict ==
    [][(cacheOp'.op = "put" /\ enabled) =>
        LET key == generate_cache_key(cacheOp'.q)
            expired == {k \in DOMAIN cache : is_expired(cache[k], now)}
            lost == (DOMAIN cache \ expired) \ DOMAIN cache'
        IN  /\ len(cache) >= max_size =>
                  (expired \ {key}) \cap DOMAIN cache' = {}
            /\ len(cache) < max_size => DOMAIN cache' = DOMAIN cache \cup {key}
            /\ lost # {} => expired = {}
            /\ Cardinality(lost) <= 1
            /\ Cardinality(DOMAIN cache \ (DOMAIN cache' \cup expired \cup {key})) <= 1]_vars

\* C22 happens: a put found the map at capacity with an expired entry beside
\* one that had not expired; the sweep made room and the live entry stayed.
C22_Witness ==
    /\ enabled /\ cacheOp.op = "put" /\ cacheOp.result = "swept"
    /\ max_size >= 2
    /\ \E k \in DOMAIN cache :
          /\ k # OpKey
          /\ cache[k].created_at < now
          /\ ~is_expired(cache[k], now)

(***************************************************************************)
(* Claims about the refill step.                                           *)
(***************************************************************************)
\* The step is an admission check with one of the outcomes given, and the
\* bucket's last_refill is now afterwards exactly when a whole token was due
\* (elapsed seconds times rate at least 1); when none was due the refill
\* left last_refill and the tokens as they were, so that the check took its
\* token from the count it found.
RefillAdvances(outcomes) ==
    (rate_enabled /\ rateOp'.result \in outcomes) =>
        LET a == rateOp'.addr
            bucket == IF a \in DOMAIN buckets THEN buckets[a]
                      ELSE RateLimitBucket_new(max_tokens, refill_rate, now)
            due == elapsed(bucket.last_refill, now) * bucket.refill_rate >= TicksPerSec
            after == buckets'[a]
        IN  /\ due => after.last_refill = now /\ bucket.last_refill < now
            /\ ~due => /\ after.last_refill = bucket.last_refill
                       /\ after.tokens = IF bucket.tokens > 0
                                         THEN bucket.tokens - 1
                                         ELSE bucket.tokens

\* C23: on an admission check the bucket's last_refill advances to the
\* current time exactly when floor(elapsed seconds * refill_rate) >= 1; when
\* no whole token is due the refill leaves tokens and last_refill unchanged.
C23_RefillAdvance == [][RefillAdvances({"admit", "reject", "panic"})]_vars

\* C23 for the admission checks in which refill returns.
C23_RefillAdvanceReturned == [][RefillAdvances({"admit", "reject"})]_vars

\* C23 happens: a bucket was checked a second time before a whole token was
\* due, and its last_refill is still the time of its creation.
C23_Witness ==
    /\ rate_enabled /\ refill_rate >= 1
    /\ rateOp.result \in {"admit", "reject"}
    /\ rateOp.addr \in DOMAIN buckets
    /\ buckets[rateOp.addr].last_refill < now

(***************************************************************************)
(* Claims about the Metrics stage.                                         *)
(***************************************************************************)
\* The requests whose request phase ended with the rejection err.
rejected_as(err) ==
    {i \in 1 .. Len(requests) : requests[i].outcome = Rejected(err)}

\* Whether the Metrics stage is registered.
MetricsRegistered == \E k \in DOMAIN middlewares : middlewares[k] = Metrics

\* The Metrics stage lets every request pass and leaves every response as
\* it is.
MetricsPassive ==
    \A i \in 1 .. Len(requests) :
        /\ \A k \in DOMAIN requests[i].ran :
              requests[i].ran[k].stage = Metrics =>
                  requests[i].ran[k].result = Continue
        /\ \A k \in DOMAIN requests[i].rran :
              requests[i].rran[k].stage = Metrics =>
                  /\ requests[i].rran[k].result = Done
                  /\ ~requests[i].rran[k].mutated

\* C24: the rate_limited and blocked counters of the Metrics stage count
\* the requests rejected as RateLimited and as Blocked, and the stage
\* itself never mutates a response and never rejects a request.
C24_MetricsCounters ==
    MetricsRegistered =>
        /\ metrics.rate_limited_requests = Cardinality(rejected_as("RateLimited"))
        /\ metrics.blocked_requests = Cardinality(rejected_as("Blocked"))
        /\ MetricsPassive

\* The part of C24 about the stage's results.
C24_MetricsPassive == MetricsRegistered => MetricsPassive

(***************************************************************************)
(* Claims about whom a bucket belongs to.                                  *)
(***************************************************************************)
\* The tokens taken from the buckets of the addresses in S, where nothing is
\* ever refilled.
RECURSIVE taken(_)
taken(S) ==
    IF S = {} THEN 0
    ELSE LET a == CHOOSE x \in S : TRUE
         IN  (buckets[a].max_tokens - buckets[a].tokens) + taken(S \ {a})

\* C25: all requests from one client IP address, whatever their source
\* port, draw from one bucket, so that an IP address obtains no more than
\* its burst by changing its source port (where nothing is refilled, no
\* more than max_tokens admissions in all).
C25_BucketPerIp ==
    rate_enabled =>
        /\ \A a, b \in DOMAIN buckets : a.ip = b.ip => a = b
        /\ refill_rate = 0 =>
              \A a \in DOMAIN buckets :
                  taken({b \in DOMAIN buckets : b.ip = a.ip}) <= max_tokens

(***************************************************************************)
(* Claims about a put for a resident key.                                  *)
(***************************************************************************)
\* The step is a put for a key already resident, and every other entry that
\* was resident and had not expired is resident afterwards, as it was.
OverwriteKeepsLive ==
    (cacheOp'.op = "put" /\ enabled
        /\ generate_cache_key(cacheOp'.q) \in DOMAIN cache) =>
            \A k \in DOMAIN cache \ {generate_cache_key(cacheOp'.q)} :
                ~is_expired(cache[k], now) =>
                    k \in DOMAIN cache' /\ cache'[k] = cache[k]

\* The step is a put for a key already resident, and the map holds no fewer
\* entries afterwards.
OverwriteKeepsCount ==
    (cacheOp'.op = "put" /\ enabled
        /\ generate_cache_key(cacheOp'.q) \in DOMAIN cache) =>
            len(cache') >= len(cache)

\* C26: a put for a query whose key is already resident overwrites only
\* that key's entry: every other resident live entry is still resident and
\* the number of entries does not decrease, also at capacity.
C26_OverwriteOnly == [][OverwriteKeepsLive /\ OverwriteKeepsCount]_vars

\* The first half of C26 alone.
C26_OverwriteKeepsLive == [][OverwriteKeepsLive]_vars

(***************************************************************************)
(* Claims about a failed response phase.                                   *)
(***************************************************************************)
\* A task whose response phase returned an error sends its buffer, as the
\* stages that ran left it; if it came by the resolver with caching on, it
\* stored the response before.
ResponseErrorSent ==
    \A i \in 1 .. Len(requests) :
        LET r == requests[i] IN
        r.routcome.tag = "Rejected" =>
            /\ r.pc \in {"responded", "done"}
            /\ r.pc = "done" =>
                  /\ r.sent = Some(r.buf)
                  /\ r.buf.edits = edits_of(r.rran)
            /\ ("resolve" \in r.did /\ enabled) => r.put_at # NoneOpt

\* The store happens before any stage of the response phase ran: the cache
\* receives the response as the upstream gave it.
StoredUnmodified ==
    \A i \in 1 .. Len(requests) :
        requests'[i].put_at # requests[i].put_at =>
            /\ requests[i].rran = << >>
            /\ requests[i].buf.edits = << >>
            /\ cache'[generate_cache_key(requests[i].query)].response
                  = requests[i].buf.bytes

\* C27: when the response phase returns an error, on a cache hit or after a
\* successful resolve, the task still sends the buffer as left by the stages
\* that ran; on the resolve path the cache already holds the unmodified
\* upstream response.
C27_ResponseErrorStillSent == []ResponseErrorSent /\ [][StoredUnmodified]_vars

\* C27 happens: a task resolved and stored its response, a stage rewrote
\* the buffer and the phase failed, and the task sent the rewritten buffer.
C27_Witness ==
    \E i \in 1 .. Len(requests) :
        LET r == requests[i] IN
        /\ r.pc = "done" /\ r.routcome.tag = "Rejected"
        /\ "resolve" \in r.did /\ r.put_at # NoneOpt
        /\ r.buf.edits # << >>
        /\ r.sent = Some(r.buf)

\* C27 happens on a cache hit as well.
C27_WitnessHit ==
    \E i \in 1 .. Len(requests) :
        LET r == requests[i] IN
        /\ r.pc = "done" /\ r.routcome.tag = "Rejected"
        /\ "hit" \in r.did /\ "resolve" \notin r.did
        /\ r.sent = Some(r.buf)

(***************************************************************************)
(* Claims about the counters of the Metrics stage.                         *)
(***************************************************************************)
\* The step lowers neither counter.
CountersGrow ==
    /\ metrics'.total_requests >= metrics.total_requests
    /\ metrics'.total_responses >= metrics.total_responses

\* C28: with the Metrics stage in the server's pipeline, under every
\* interleaving of the request tasks the responses counter is at most the
\* requests counter, and neither counter ever decreases.
C28_ResponsesAtMostRequests ==
    /\ [](MetricsRegistered => metrics.total_responses <= metrics.total_requests)
    /\ [][CountersGrow]_vars

\* C28 happens: two tasks were counted as requests; one went through the
\* response phase and was counted there while the other had not yet.
C28_Witness ==
    /\ MetricsRegistered
    /\ metrics.total_requests = 2 /\ metrics.total_responses = 1
    /\ \E i, j \in 1 .. Len(requests) :
          /\ requests[i].pc = "done" /\ requests[i].sent # NoneOpt
          /\ requests[j].pc \in {"lock", "resolving", "put", "response"}

(***************************************************************************)
(* Claims about the cursor over all calls of resolve.                      *)
(***************************************************************************)
\* C29: with a non-empty upstream list the cursor is a valid index after
\* any sequence of resolve calls, whatever succeeds and fails: 0 <= cursor
\* < len(upstreams).
C29_CursorInRange ==
    Len(upstreams) > 0 =>
        0 <= current_upstream /\ current_upstream < Len(upstreams)

\* C29 happens: the upstream at the last index failed and the cursor
\* wrapped round to 0.
C29_Witness ==
    /\ Len(upstreams) >= 2
    /\ attempts # << >>
    /\ attempts[Len(attempts)].idx = Len(upstreams) - 1
    /\ ~attempts[Len(attempts)].result.ok
    /\ current_upstream = 0

\* A call in which every upstream failed has returned.
AllFailed ==
    ~resolving /\ resolved = Err("AllUpstreamsUnavailable")

\* C30: a resolve call in which every upstream fails leaves the cursor at
\* the value it had when the call started, having advanced len(upstreams)
\* times, and the next call starts at the upstream the failed one started
\* at.
C30_AllFailedCursorBack ==
    /\ [](AllFailed =>
            /\ current_upstream = start_cursor
            /\ Len(attempts) = Len(upstreams)
            /\ \A k \in 1 .. Len(attempts) : ~attempts[k].result.ok)
    /\ [][(AllFailed /\ resolving') => start_cursor' = start_cursor]_vars

\* C30 happens: a call that started in the middle of a list went round the
\* whole list, failed everywhere and left the cursor where it started.
C30_Witness ==
    /\ AllFailed
    /\ Len(upstreams) >= 2 /\ start_cursor > 0
    /\ Len(attempts) = Len(upstreams)
    /\ current_upstream = start_cursor

====
